---- MODULE Spec2Model ----
(***************************************************************************)
(* A model of the dispensing orchestration code of medibuddy_backend:      *)
(*   - the dispenser controller (dispensing logs and compartment counts),  *)
(*   - the socket handlers 'medication:confirm' and 'medication:refill',   *)
(*   - the schedule controller and its expansion into dispensing logs,     *)
(*   - the device-side inventory and dispensing services.                  *)
(* Every handler is an async function: between two awaited database calls  *)
(* other handlers run, so a handler that reads a document and writes it    *)
(* back later is modelled as one step per database call.                   *)
(* Documents carry the fields the controllers read and write.              *)
(***************************************************************************)
EXTENDS Integers, Sequences, FiniteSets, TLC

VARIABLES
  compartments,   \* DispenserDevice.compartments of the one registered device
  medInventory,   \* PatientMedication.inventoryTracking.currentQuantity, per medication
  logs,           \* the DispensingLog collection, a set of documents
  nextLogId,      \* the next fresh DispensingLog _id
  pc,             \* per handler invocation slot: the await it is suspended at
  local,          \* per handler invocation slot: request body and documents in memory
  opCount,        \* number of handler invocations started so far
  missedEmits,    \* 'patient:medication:missed' emits: the dispensing log ids, in order
  alerts,         \* the Alert collection
  now,            \* the wall clock, in minutes since day 0 00:00 local time
  schedules,      \* the Schedule collection, a set of documents
  nextScheduleId, \* the next fresh Schedule _id
  slots,          \* db.dispenserSlots: slot number -> [pillCount, medication]
  dispensingRecords, \* db.dispensingLog of the device services: request id -> status
  reminderLogs,   \* db.reminderLogs: reminder id -> status
  inventoryLog,   \* db.inventoryLog, a sequence of audit entries
  notifications,  \* calls of notificationService.createNotification, in order
  deliveries,     \* calls of sendSMS / sendEmail / sendPushNotification, in order
  response,       \* what the handler that ran last returned to its caller
  deviceState,    \* MQTTController.deviceState
  publishedMessages, \* messages the MQTT client has published, in order
  clientConnected,   \* this.client.connected
  consumed        \* history: dispensing log id -> tablets its 'dispensed' updates took
                  \* out of its compartment

vars == <<compartments, medInventory, logs, nextLogId, pc, local, opCount,
          missedEmits, alerts, now, schedules, nextScheduleId, slots,
          dispensingRecords, reminderLogs, inventoryLog, notifications, deliveries,
          response, deviceState, publishedMessages,
          clientConnected, consumed>>

dispenserVars == <<compartments, medInventory, logs, nextLogId, pc, local,
                   opCount, missedEmits>>
scheduleVars == <<now, schedules, nextScheduleId>>
serviceVars == <<slots, dispensingRecords, reminderLogs, inventoryLog, notifications>>
mqttVars == <<deviceState, publishedMessages, clientConnected>>

-----------------------------------------------------------------------------
(* Bounds of the model *)

NumProcs == 2          \* handler invocations in flight at once
NumCompartments == 1   \* hardware.numberOfCompartments of the registered device
MaxLogs == 2           \* dispensing logs created through createDispensingLog
MaxOps == 3            \* handler invocations in one behaviour
MaxSchedules == 1      \* schedules created
MaxTicks == 3          \* clock advances
TickMinutes == 600     \* minutes per clock advance
NumSlots == 1          \* slots of the device
MaxRecords == 2        \* dispense requests created
MaxPills == 3          \* largest pill count a slot starts with or a device reports
MaxAlerts == 2         \* alerts created
MaxLevel == 5          \* largest escalationLevel a request supplies

(* Program constants *)

DefaultCapacity == 30  \* hardware?.maxTabletCapacityPerCompartment || 30

-----------------------------------------------------------------------------
(* JavaScript values *)

Undefined == << >>                 \* an absent number: undefined
Some(n) == << n >>                 \* a present number
Truthy(opt) == opt # Undefined /\ opt[1] # 0
Max(a, b) == IF a >= b THEN a ELSE b

\* What a caller gets back: the value returned or the HTTP status sent ("ok",
\* "failure"), or an exception ("throws").
Response(op, outcome, code) == [op |-> op, outcome |-> outcome, code |-> code]
NoResponse == Response("", "", 0)

Procs == 1..NumProcs
CompartmentIds == 1..NumCompartments
Meds == {"m1", "m2"}               \* PatientMedication documents
Users == {"u1", "u2"}              \* users; u1 is the patient, assigned to the device
Patient == "u1"
NoSchedule == 0

\* status enum of the DispensingLog schema
StatusEnum == {"scheduled", "dispensed", "taken", "missed", "skipped"}

\* The compartments registerDispenserDevice creates.
RegisteredCompartments ==
  [c \in CompartmentIds |->
     [currentQuantity |-> 0, capacity |-> DefaultCapacity, medicationId |-> "none"]]

NoDoc == [id |-> 0, patient |-> "none", medication |-> "none", schedule |-> NoSchedule,
          scheduledTime |-> 0, status |-> "", compartmentId |-> 0, tablets |-> 0,
          actual |-> Undefined]

NoLocal == [logId |-> 0, status |-> "", actual |-> Undefined, doc |-> NoDoc,
            readStatus |-> "", readQty |-> 0]

HasLog(id) == \E l \in logs : l.id = id
LogById(id) == CHOOSE l \in logs : l.id = id
StatusOf(id) == IF HasLog(id) THEN LogById(id).status ELSE "deleted"

\* The collection after a $set of one document's fields.
ReplaceLog(doc) == {l \in logs : l.id # doc.id} \cup {doc}

\* A new invocation takes the first free slot (the slots are interchangeable).
FreeSlot(p) == pc[p] = "idle" /\ \A q \in Procs : q < p => pc[q] # "idle"

-----------------------------------------------------------------------------
(* createDispensingLog: POST /api/dispensers/:id/logs *)

createDispensingLog(medication, scheduledTime, compartmentId, quantity) ==
  /\ nextLogId <= MaxLogs
  /\ logs' = logs \cup
       {[id |-> nextLogId, patient |-> Patient, medication |-> medication,
         schedule |-> NoSchedule, scheduledTime |-> scheduledTime, status |-> "scheduled",
         compartmentId |-> compartmentId,
         tablets |-> IF quantity # 0 THEN quantity ELSE 1,
         actual |-> Undefined]}
  /\ nextLogId' = nextLogId + 1
  /\ UNCHANGED <<compartments, medInventory, pc, local, opCount, missedEmits>>

-----------------------------------------------------------------------------
(* updateDispensingLogStatus: PUT /api/dispensers/logs/:logId              *)
(* One step per awaited call: findById, save, DispenserDevice.findById,    *)
(* dispenser.save.                                                         *)

\* await DispensingLog.findById(req.params.logId)
ULS_Find(p, logId, status, actual) ==
  /\ FreeSlot(p)
  /\ opCount < MaxOps
  /\ HasLog(logId)
  /\ pc' = [pc EXCEPT ![p] = "uls_save"]
  /\ local' = [local EXCEPT ![p] =
       [logId |-> logId, status |-> status, actual |-> actual,
        doc |-> LogById(logId), readStatus |-> LogById(logId).status, readQty |-> 0]]
  /\ opCount' = opCount + 1
  /\ UNCHANGED <<compartments, medInventory, logs, nextLogId, missedEmits>>

\* The document in memory after the handler's assignments.
ULS_Mutated(doc, status, actual) ==
  [doc EXCEPT !.status = IF status # "" THEN status ELSE doc.status,
              !.actual = IF actual # Undefined THEN actual ELSE doc.actual]

\* The condition under which the handler goes on to the compartment.
ULS_TouchesCompartment(status, doc) ==
  status = "dispensed" /\ doc.compartmentId # 0

\* dispensingLog.quantity.actualTabletDispensed || dispensingLog.quantity.tablets || 1
TabletsDispensed(doc) ==
  IF Truthy(doc.actual) THEN doc.actual[1]
  ELSE IF doc.tablets # 0 THEN doc.tablets ELSE 1

\* await dispensingLog.save(): a $set of the modified paths of the document read
\* earlier; it fails when the document is gone.
ULS_Save(p) ==
  /\ pc[p] = "uls_save"
  /\ LET doc == local[p].doc
         new == ULS_Mutated(doc, local[p].status, local[p].actual)
         modified == new # doc
     IN IF modified /\ ~HasLog(doc.id)
        THEN /\ pc' = [pc EXCEPT ![p] = "idle"]
             /\ local' = [local EXCEPT ![p] = NoLocal]
             /\ UNCHANGED logs
        ELSE /\ logs' = IF modified
                        THEN ReplaceLog([LogById(doc.id) EXCEPT
                               !.status = IF new.status # doc.status THEN new.status ELSE @,
                               !.actual = IF new.actual # doc.actual THEN new.actual ELSE @])
                        ELSE logs
             /\ IF ULS_TouchesCompartment(local[p].status, new)
                THEN /\ pc' = [pc EXCEPT ![p] = "uls_findDevice"]
                     /\ local' = [local EXCEPT ![p].doc = new]
                ELSE /\ pc' = [pc EXCEPT ![p] = "idle"]
                     /\ local' = [local EXCEPT ![p] = NoLocal]
  /\ UNCHANGED <<compartments, medInventory, nextLogId, opCount, missedEmits>>

\* await DispenserDevice.findById(dispensingLog.device), compartments.findIndex
ULS_FindDevice(p) ==
  /\ pc[p] = "uls_findDevice"
  /\ IF local[p].doc.compartmentId \in DOMAIN compartments
     THEN /\ pc' = [pc EXCEPT ![p] = "uls_saveDevice"]
          /\ local' = [local EXCEPT ![p].readQty =
                         compartments[local[p].doc.compartmentId].currentQuantity]
     ELSE /\ pc' = [pc EXCEPT ![p] = "idle"]
          /\ local' = [local EXCEPT ![p] = NoLocal]
  /\ UNCHANGED <<compartments, medInventory, logs, nextLogId, opCount, missedEmits>>

\* Math.max(0, currentQuantity - tabletsDispensed), on the quantity read earlier
QuantityAfterDispense(readQty, tabletsDispensed) == Max(0, readQty - tabletsDispensed)

\* await dispenser.save(): a $set of the compartment's currentQuantity
ULS_SaveDevice(p) ==
  /\ pc[p] = "uls_saveDevice"
  /\ compartments' = [compartments EXCEPT ![local[p].doc.compartmentId].currentQuantity =
       QuantityAfterDispense(local[p].readQty, TabletsDispensed(local[p].doc))]
  /\ pc' = [pc EXCEPT ![p] = "idle"]
  /\ local' = [local EXCEPT ![p] = NoLocal]
  /\ UNCHANGED <<medInventory, logs, nextLogId, opCount, missedEmits>>

\* The history after the dispenser.save() of invocation p: the tablets the write
\* takes off the quantity the handler read are added to the log's entry.
ConsumedAfter(p) ==
  LET id == local[p].doc.id
      taken == local[p].readQty
                 - QuantityAfterDispense(local[p].readQty, TabletsDispensed(local[p].doc))
  IN [i \in DOMAIN consumed \cup {id} |->
        IF i = id
        THEN (IF id \in DOMAIN consumed THEN consumed[id] ELSE 0) + taken
        ELSE consumed[i]]

-----------------------------------------------------------------------------
(* updateDispenserCompartment: PUT /api/dispensers/:id/compartment/:cid    *)
(* The written values come from the request body alone, so the read and    *)
(* the save are one step.  medicationId "" and currentQuantity Undefined   *)
(* are absent fields.                                                      *)

updateDispenserCompartment(compartmentId, medicationId, currentQuantity) ==
  /\ opCount < MaxOps
  /\ compartmentId \in DOMAIN compartments
  /\ medicationId # "" => medicationId \in Meds
  /\ compartments' = [compartments EXCEPT ![compartmentId] =
       [@ EXCEPT !.medicationId = IF medicationId # "" THEN medicationId ELSE @,
                 !.currentQuantity = IF currentQuantity # Undefined
                                     THEN currentQuantity[1] ELSE @]]
  /\ opCount' = opCount + 1
  /\ UNCHANGED <<medInventory, logs, nextLogId, pc, local, missedEmits>>

-----------------------------------------------------------------------------
(* socket.on('medication:refill')                                          *)
(* findByIdAndUpdate on the medication, then updateOne on the compartment  *)
(* of the user's dispenser; both write the value of the message.           *)

medicationRefill(user, medicationId, newQuantity, compartmentId) ==
  /\ opCount < MaxOps
  /\ medicationId \in Meds /\ user = Patient
  /\ medInventory' = [medInventory EXCEPT ![medicationId] = newQuantity]
  /\ compartments' =
       IF compartmentId # 0 /\ compartmentId \in DOMAIN compartments
       THEN [compartments EXCEPT ![compartmentId].currentQuantity = newQuantity]
       ELSE compartments
  /\ opCount' = opCount + 1
  /\ UNCHANGED <<logs, nextLogId, pc, local, missedEmits>>

-----------------------------------------------------------------------------
(* socket.on('device:dispense')                                            *)
(* The device of the message must be one of the user's assigned            *)
(* dispensers; the log is created 'dispensed' and the medication's         *)
(* inventory lowered by the quantity of the message.                       *)

deviceDispense(user, medicationId, compartmentId, quantity) ==
  /\ opCount < MaxOps
  /\ nextLogId <= MaxLogs
  /\ user = Patient /\ medicationId \in Meds
  /\ logs' = logs \cup
       {[id |-> nextLogId, patient |-> user, medication |-> medicationId,
         schedule |-> NoSchedule, scheduledTime |-> now, status |-> "dispensed",
         compartmentId |-> compartmentId, tablets |-> quantity, actual |-> Undefined]}
  /\ nextLogId' = nextLogId + 1
  /\ medInventory' = [medInventory EXCEPT ![medicationId] = @ - quantity]
  /\ opCount' = opCount + 1
  /\ UNCHANGED <<compartments, pc, local, missedEmits>>

-----------------------------------------------------------------------------
(* socket.on('medication:confirm')                                         *)

\* await DispensingLog.findById(dispensingId), and the ownership check
MC_Find(p, user, dispensingId, status) ==
  /\ FreeSlot(p)
  /\ opCount < MaxOps
  /\ HasLog(dispensingId)
  /\ LogById(dispensingId).patient = user
  /\ pc' = [pc EXCEPT ![p] = "mc_save"]
  /\ local' = [local EXCEPT ![p] =
       [logId |-> dispensingId, status |-> status, actual |-> Undefined,
        doc |-> LogById(dispensingId), readStatus |-> LogById(dispensingId).status,
        readQty |-> 0]]
  /\ opCount' = opCount + 1
  /\ UNCHANGED <<compartments, medInventory, logs, nextLogId, missedEmits>>

\* Whether the handler returns the tablets to the medication's inventory.
MC_Restocks(status) == status = "missed" \/ status = "skipped"

\* dispensing.status = status; dispensing.takenTime = new Date();
\* await dispensing.save(): a $set of the modified paths (takenTime always, status
\* when it differs from the status read); it fails when the document is gone.
MC_Save(p) ==
  /\ pc[p] = "mc_save"
  /\ IF ~HasLog(local[p].logId)
     THEN /\ pc' = [pc EXCEPT ![p] = "idle"]
          /\ local' = [local EXCEPT ![p] = NoLocal]
          /\ UNCHANGED <<logs, missedEmits>>
     ELSE /\ logs' = ReplaceLog([LogById(local[p].logId) EXCEPT
                        !.status = IF local[p].status # local[p].doc.status
                                   THEN local[p].status ELSE @])
          /\ IF MC_Restocks(local[p].status)
             THEN /\ pc' = [pc EXCEPT ![p] = "mc_restock"]
                  /\ UNCHANGED <<local, missedEmits>>
             ELSE /\ pc' = [pc EXCEPT ![p] = "idle"]
                  /\ local' = [local EXCEPT ![p] = NoLocal]
                  /\ UNCHANGED missedEmits
  /\ UNCHANGED <<compartments, medInventory, nextLogId, opCount>>

\* await PatientMedication.findOneAndUpdate($inc currentQuantity by quantity.tablets),
\* then the emits: 'patient:medication:missed' when the status is 'missed'
MC_Restock(p) ==
  /\ pc[p] = "mc_restock"
  /\ medInventory' = [medInventory EXCEPT ![local[p].doc.medication] =
                        @ + local[p].doc.tablets]
  /\ missedEmits' = IF local[p].status = "missed"
                    THEN Append(missedEmits, local[p].logId)
                    ELSE missedEmits
  /\ pc' = [pc EXCEPT ![p] = "idle"]
  /\ local' = [local EXCEPT ![p] = NoLocal]
  /\ UNCHANGED <<compartments, logs, nextLogId, opCount>>

-----------------------------------------------------------------------------
(* Time.  Instants are minutes since day 0 00:00 local time; day 0 is a     *)
(* Thursday, as the epoch is.  A time of day is the string the schedule     *)
(* holds, "HH:MM", as its sequence of characters.                           *)

MinutesPerDay == 1440
DefaultHorizonDays == 30   \* now.getTime() + 30 * 24 * 60 * 60 * 1000

T0800 == <<"0", "8", ":", "0", "0">>
T2000 == <<"2", "0", ":", "0", "0">>

DigitValue(ch) ==
  CASE ch = "0" -> 0 [] ch = "1" -> 1 [] ch = "2" -> 2 [] ch = "3" -> 3 [] ch = "4" -> 4
    [] ch = "5" -> 5 [] ch = "6" -> 6 [] ch = "7" -> 7 [] ch = "8" -> 8 [] ch = "9" -> 9

\* Number(str) of a string of decimal digits; Number("") is 0
RECURSIVE ToNumber(_)
ToNumber(str) ==
  IF str = << >> THEN 0
  ELSE 10 * ToNumber(SubSeq(str, 1, Len(str) - 1)) + DigitValue(str[Len(str)])

\* str.split(':'): the pieces between the colons
RECURSIVE SplitColon(_)
SplitColon(str) ==
  IF \A i \in 1..Len(str) : str[i] # ":"
  THEN << str >>
  ELSE LET k == CHOOSE i \in 1..Len(str) :
                  str[i] = ":" /\ \A j \in 1..(i - 1) : str[j] # ":"
       IN << SubSeq(str, 1, k - 1) >> \o SplitColon(SubSeq(str, k + 1, Len(str)))

\* const [hours, minutes] = timeStr.split(':').map(Number), as minutes of the day
MinutesOfDay(timeStr) ==
  LET parts == SplitColon(timeStr)
  IN ToNumber(parts[1]) * 60 + ToNumber(parts[2])

DayOf(instant) == instant \div MinutesPerDay
StartOfDay(instant) == DayOf(instant) * MinutesPerDay   \* setHours(0, 0, 0, 0)
DayOfWeek(day) == (day + 4) % 7                          \* getDay()
AllDays == 0..6

-----------------------------------------------------------------------------
(* generateDispensingLogs(schedule) *)

\* schedule.endDate || new Date(now.getTime() + 30 days)
HorizonEnd(schedule, t) ==
  IF schedule.endDate # Undefined THEN schedule.endDate[1]
  ELSE t + DefaultHorizonDays * MinutesPerDay

\* The inner loop: one instant per entry of scheduleTimes, the future ones kept.
RECURSIVE TimesOfDay(_, _, _)
TimesOfDay(times, dayStart, t) ==
  IF times = << >> THEN << >>
  ELSE LET scheduledTime == dayStart + MinutesOfDay(Head(times))
       IN (IF scheduledTime > t THEN << scheduledTime >> ELSE << >>)
          \o TimesOfDay(Tail(times), dayStart, t)

\* The outer loop: while (currentDate <= endDate), a day at a time.
RECURSIVE DaysLoop(_, _, _, _)
DaysLoop(schedule, currentDate, endDate, t) ==
  IF currentDate > endDate THEN << >>
  ELSE (IF DayOfWeek(DayOf(currentDate)) \in schedule.daysOfWeek
        THEN TimesOfDay(schedule.scheduleTimes, currentDate, t)
        ELSE << >>)
       \o DaysLoop(schedule, currentDate + MinutesPerDay, endDate, t)

\* The scheduled times of the logs generateDispensingLogs inserts, in order.
GeneratedTimes(schedule, t) ==
  IF ~schedule.active \/ schedule.dispenser = ""
  THEN << >>
  ELSE DaysLoop(schedule, StartOfDay(t), HorizonEnd(schedule, t), t)

\* DispensingLog.insertMany(logs): the documents, with fresh ids from firstId on.
GeneratedLogs(schedule, t, firstId) ==
  LET times == GeneratedTimes(schedule, t)
  IN {[id |-> firstId + i - 1, patient |-> schedule.patient,
       medication |-> schedule.medication, schedule |-> schedule.id,
       scheduledTime |-> times[i], status |-> "scheduled",
       compartmentId |-> schedule.compartmentId, tablets |-> schedule.tablets,
       actual |-> Undefined] : i \in 1..Len(times)}

\* DispensingLog.deleteMany / updateMany filter:
\* { schedule, scheduledTime: { $gte: new Date() }, status: 'scheduled' }
FutureScheduledLogs(scheduleId, t) ==
  {l \in logs : l.schedule = scheduleId /\ l.scheduledTime >= t /\ l.status = "scheduled"}

HasSchedule(id) == \E s \in schedules : s.id = id
ScheduleById(id) == CHOOSE s \in schedules : s.id = id

\* findOneAndUpdate({ _id, 'compartments.compartmentId': c }, { $set / $unset medicationId })
WithMedication(comps, compartmentId, medicationId) ==
  IF compartmentId \in DOMAIN comps
  THEN [comps EXCEPT ![compartmentId].medicationId = medicationId]
  ELSE comps

-----------------------------------------------------------------------------
(* The schedule controller.  A handler's database calls are taken as one    *)
(* step: the schedule claims are decided by single handlers run in turn.    *)
(* Absent body fields: "" (an id), 0 (compartmentId), Undefined (the rest). *)

Device == "d1"

\* createSchedule: POST /api/schedules
createSchedule(medication, dispenser, compartmentId, scheduleTimes, daysOfWeek, startDate, endDate, dosage) ==
  /\ opCount < MaxOps
  /\ nextScheduleId <= MaxSchedules
  /\ medication \in Meds
  /\ dispenser # "" =>
       /\ dispenser = Device
       /\ compartmentId # 0 =>
            /\ compartmentId \in DOMAIN compartments
            /\ compartments[compartmentId].medicationId \in {"none", medication}
  /\ LET schedule ==
           [id |-> nextScheduleId, patient |-> Patient, medication |-> medication,
            dispenser |-> dispenser, compartmentId |-> compartmentId,
            scheduleTimes |-> scheduleTimes,
            daysOfWeek |-> IF daysOfWeek # Undefined THEN daysOfWeek[1] ELSE AllDays,
            startDate |-> IF startDate # Undefined THEN startDate[1] ELSE now,
            endDate |-> endDate,
            tablets |-> IF dosage # Undefined THEN dosage[1] ELSE 1,
            active |-> TRUE, statusHistory |-> << >>]
         created == GeneratedLogs(schedule, now, nextLogId)
     IN /\ schedules' = schedules \cup {schedule}
        /\ compartments' = IF dispenser # "" /\ compartmentId # 0
                           THEN WithMedication(compartments, compartmentId, medication)
                           ELSE compartments
        /\ logs' = logs \cup created
        /\ nextLogId' = nextLogId + Cardinality(created)
  /\ nextScheduleId' = nextScheduleId + 1
  /\ opCount' = opCount + 1
  /\ UNCHANGED <<medInventory, pc, local, missedEmits, now>>

\* The logs after updateSchedule's deleteMany of the future scheduled logs.
LogsAfterDelete(scheduleId, t) == logs \ FutureScheduledLogs(scheduleId, t)

\* updateSchedule: PUT /api/schedules/:id
updateSchedule(id, dispenser, compartmentId, scheduleTimes, daysOfWeek, startDate, endDate, active) ==
  /\ opCount < MaxOps
  /\ HasSchedule(id)
  /\ LET schedule == ScheduleById(id)
         \* schedule.dispenser.toString() throws when the schedule has no dispenser
         changingDispenser == dispenser # "" /\ dispenser # schedule.dispenser
         changingCompartment == compartmentId # 0 /\ compartmentId # schedule.compartmentId
         changing == changingDispenser \/ changingCompartment
         dispenserId == IF dispenser # "" THEN dispenser ELSE schedule.dispenser
         newCompartment == IF compartmentId # 0 THEN compartmentId
                           ELSE schedule.compartmentId
         cleared == IF schedule.dispenser # "" /\ schedule.compartmentId # 0
                    THEN WithMedication(compartments, schedule.compartmentId, "none")
                    ELSE compartments
         timingChanged == \/ scheduleTimes # Undefined \/ daysOfWeek # Undefined
                          \/ startDate # Undefined \/ endDate # Undefined
         updated ==
           [schedule EXCEPT
              !.dispenser = IF dispenser # "" THEN dispenser ELSE @,
              !.compartmentId = IF compartmentId # 0 THEN compartmentId ELSE @,
              !.scheduleTimes = IF scheduleTimes # Undefined THEN scheduleTimes[1] ELSE @,
              !.daysOfWeek = IF daysOfWeek # Undefined THEN daysOfWeek[1] ELSE @,
              !.startDate = IF startDate # Undefined THEN startDate[1] ELSE @,
              !.endDate = IF endDate # Undefined THEN endDate ELSE @,
              !.active = IF active # Undefined THEN active[1] ELSE @]
         kept == LogsAfterDelete(id, now)
         created == GeneratedLogs(updated, now, nextLogId)
     IN /\ dispenser # "" => schedule.dispenser # ""
        /\ changing =>
             /\ dispenserId = Device
             /\ newCompartment \in DOMAIN compartments
             /\ compartments[newCompartment].medicationId \in {"none", schedule.medication}
        /\ compartments' = IF changing
                           THEN WithMedication(cleared, newCompartment, schedule.medication)
                           ELSE compartments
        /\ schedules' = (schedules \ {schedule}) \cup {updated}
        /\ IF timingChanged /\ updated.active
           THEN /\ logs' = kept \cup created
                /\ nextLogId' = nextLogId + Cardinality(created)
           ELSE UNCHANGED <<logs, nextLogId>>
  /\ opCount' = opCount + 1
  /\ UNCHANGED <<medInventory, pc, local, missedEmits, now, nextScheduleId>>

\* deleteSchedule: DELETE /api/schedules/:id
deleteSchedule(id) ==
  /\ opCount < MaxOps
  /\ HasSchedule(id)
  /\ LET schedule == ScheduleById(id)
     IN /\ compartments' = IF schedule.dispenser # "" /\ schedule.compartmentId # 0
                           THEN WithMedication(compartments, schedule.compartmentId, "none")
                           ELSE compartments
        /\ logs' = LogsAfterDelete(id, now)
        /\ schedules' = schedules \ {schedule}
  /\ opCount' = opCount + 1
  /\ UNCHANGED <<medInventory, nextLogId, pc, local, missedEmits, now, nextScheduleId>>

\* The logs after updateMany({ future scheduled logs }, { $set: { status: 'cancelled' } }).
LogsAfterCancel(scheduleId, t) ==
  {IF l \in FutureScheduledLogs(scheduleId, t) THEN [l EXCEPT !.status = "cancelled"] ELSE l
     : l \in logs}

\* updateScheduleStatus: PUT /api/schedules/:id/status
\* The handler assigns schedule.active = active first; both of its conditions then
\* read the assigned value.
updateScheduleStatus(id, active) ==
  /\ opCount < MaxOps
  /\ HasSchedule(id)
  /\ LET schedule == [ScheduleById(id) EXCEPT
                         !.active = active,
                         !.statusHistory = Append(@, IF active THEN "active" ELSE "paused")]
         created == GeneratedLogs(schedule, now, nextLogId)
     IN /\ schedules' = (schedules \ {ScheduleById(id)}) \cup {schedule}
        /\ IF active /\ ~schedule.active
           THEN /\ logs' = logs \cup created
                /\ nextLogId' = nextLogId + Cardinality(created)
           ELSE IF ~active /\ schedule.active
                THEN /\ logs' = LogsAfterCancel(id, now)
                     /\ UNCHANGED nextLogId
                ELSE UNCHANGED <<logs, nextLogId>>
  /\ opCount' = opCount + 1
  /\ UNCHANGED <<compartments, medInventory, pc, local, missedEmits, now, nextScheduleId>>

\* The clock advances.
Tick ==
  /\ now + TickMinutes <= MaxTicks * TickMinutes
  /\ now' = now + TickMinutes
  /\ UNCHANGED <<dispenserVars, schedules, nextScheduleId>>

\* getUpcomingDispenses: the scheduled logs from now to the end of tomorrow, the
\* ones a client is shown and reports a status for.
UpcomingLogIds ==
  {l.id : l \in {x \in logs : /\ x.status = "scheduled"
                              /\ x.scheduledTime >= now
                              /\ x.scheduledTime < StartOfDay(now) + 2 * MinutesPerDay}}

-----------------------------------------------------------------------------
(* The dispenser specification *)

QuantityInputs == {-1, 2, DefaultCapacity + 1}
TabletInputs == {0, 2}

\* MQTTController constructor: this.deviceState
InitialDeviceState ==
  [batteryLevel |-> Some(100),
   inventoryLevels |->
     [compartment1 |-> [medication |-> "Aspirin", quantity |-> Some(30)],
      compartment2 |-> [medication |-> "Ibuprofen", quantity |-> Some(20)]],
   dispensingLog |-> << >>,
   lastDispensed |-> Undefined]

InitBase ==
  /\ compartments = RegisteredCompartments
  /\ medInventory = [m \in Meds |-> 0]
  /\ logs = {}
  /\ nextLogId = 1
  /\ pc = [p \in Procs |-> "idle"]
  /\ local = [p \in Procs |-> NoLocal]
  /\ opCount = 0
  /\ missedEmits = << >>
  /\ alerts = {}
  /\ now = 0
  /\ schedules = {}
  /\ nextScheduleId = 1
  /\ consumed = << >>
  /\ response = NoResponse
  /\ deliveries = << >>
  /\ deviceState = InitialDeviceState
  /\ publishedMessages = << >>
  /\ clientConnected = FALSE

\* no slot is configured and no device service has run
InitCommon ==
  /\ InitBase
  /\ slots = << >>
  /\ dispensingRecords = << >>
  /\ reminderLogs = << >>
  /\ inventoryLog = << >>
  /\ notifications = << >>

Init == InitCommon

Next ==
  \/ /\ \E q \in TabletInputs : createDispensingLog("m1", 480, 1, q)
     /\ UNCHANGED <<alerts, deliveries, response, consumed, mqttVars, scheduleVars, serviceVars>>
  \/ /\ \E p \in Procs, id \in 1..MaxLogs, s \in StatusEnum \cup {""},
           a \in {Undefined, Some(1)} : ULS_Find(p, id, s, a)
     /\ UNCHANGED <<alerts, deliveries, response, consumed, mqttVars, scheduleVars, serviceVars>>
  \/ /\ \E p \in Procs : ULS_Save(p)
     /\ UNCHANGED <<alerts, deliveries, response, consumed, mqttVars, scheduleVars, serviceVars>>
  \/ /\ \E p \in Procs : ULS_FindDevice(p)
     /\ UNCHANGED <<alerts, deliveries, response, consumed, mqttVars, scheduleVars, serviceVars>>
  \/ /\ \E p \in Procs : ULS_SaveDevice(p) /\ consumed' = ConsumedAfter(p) /\ UNCHANGED mqttVars
     /\ UNCHANGED <<alerts, deliveries, response, scheduleVars, serviceVars>>
  \/ /\ \E c \in CompartmentIds, m \in {"", "m1"},
           q \in {Undefined} \cup {Some(n) : n \in QuantityInputs} :
          updateDispenserCompartment(c, m, q)
     /\ UNCHANGED <<alerts, deliveries, response, consumed, mqttVars, scheduleVars, serviceVars>>
  \/ /\ \E u \in Users, q \in QuantityInputs, c \in {0} \cup CompartmentIds :
          medicationRefill(u, "m1", q, c)
     /\ UNCHANGED <<alerts, deliveries, response, consumed, mqttVars, scheduleVars, serviceVars>>
  \/ /\ \E u \in Users : deviceDispense(u, "m1", 1, 2)
     /\ UNCHANGED <<alerts, deliveries, response, consumed, mqttVars, scheduleVars, serviceVars>>
  \/ /\ \E p \in Procs, u \in Users, id \in 1..MaxLogs, s \in StatusEnum :
          MC_Find(p, u, id, s)
     /\ UNCHANGED <<alerts, deliveries, response, consumed, mqttVars, scheduleVars, serviceVars>>
  \/ /\ \E p \in Procs : MC_Save(p)
     /\ UNCHANGED <<alerts, deliveries, response, consumed, mqttVars, scheduleVars, serviceVars>>
  \/ /\ \E p \in Procs : MC_Restock(p)
     /\ UNCHANGED <<alerts, deliveries, response, consumed, mqttVars, scheduleVars, serviceVars>>

Spec == Init /\ [][Next]_vars

-----------------------------------------------------------------------------
(* The schedule specification *)

ScheduleTimesInputs == {<< >>, <<T0800, T2000>>, <<T0800, T0800>>}
DaysInputs == {Undefined, Some({5})}
StartDateInputs == {Undefined, Some(2 * MinutesPerDay)}
EndDateInputs == {Undefined, Some(now + MinutesPerDay)}

InitSchedule == InitCommon

NextSchedule ==
  \/ /\ \E dc \in {<<Device, 1>>, <<"", 0>>}, st \in ScheduleTimesInputs,
           dw \in DaysInputs, sd \in StartDateInputs, ed \in EndDateInputs :
          createSchedule("m1", dc[1], dc[2], st, dw, sd, ed, Undefined)
     /\ UNCHANGED <<alerts, deliveries, response, consumed, mqttVars, serviceVars>>
  \/ /\ \E id \in 1..MaxSchedules, c \in 0..(NumCompartments + 1),
           st \in {Undefined, Some(<<T0800, T2000>>)}, ed \in EndDateInputs,
           a \in {Undefined, Some(FALSE)} :
          updateSchedule(id, "", c, st, Undefined, Undefined, ed, a)
     /\ UNCHANGED <<alerts, deliveries, response, consumed, mqttVars, serviceVars>>
  \/ /\ \E id \in 1..MaxSchedules : deleteSchedule(id)
     /\ UNCHANGED <<alerts, deliveries, response, consumed, mqttVars, serviceVars>>
  \/ /\ \E id \in 1..MaxSchedules, a \in BOOLEAN : updateScheduleStatus(id, a)
     /\ UNCHANGED <<alerts, deliveries, response, consumed, mqttVars, serviceVars>>
  \/ /\ Tick
     /\ UNCHANGED <<alerts, deliveries, response, consumed, mqttVars, serviceVars>>
  \/ /\ \E id \in UpcomingLogIds, s \in {"dispensed", "skipped"} :
          ULS_Find(1, id, s, Undefined)
     /\ UNCHANGED <<alerts, deliveries, response, consumed, mqttVars, scheduleVars, serviceVars>>
  \/ /\ ULS_Save(1)
     /\ UNCHANGED <<alerts, deliveries, response, consumed, mqttVars, scheduleVars, serviceVars>>
  \/ /\ ULS_FindDevice(1)
     /\ UNCHANGED <<alerts, deliveries, response, consumed, mqttVars, scheduleVars, serviceVars>>
  \/ /\ ULS_SaveDevice(1) /\ consumed' = ConsumedAfter(1) /\ UNCHANGED mqttVars
     /\ UNCHANGED <<alerts, deliveries, response, scheduleVars, serviceVars>>

SpecSchedule == InitSchedule /\ [][NextSchedule]_vars

-----------------------------------------------------------------------------
(* The device services: services/inventory, services/dispenser *)

SlotNumbers == 1..NumSlots
UnknownSlot == NumSlots + 1
UnknownDevice == "d2"
ReminderWindow == 60

\* a slot row with its medication relation included (Undefined when it has none)
Slot(pillCount, medication) == [pillCount |-> pillCount, medication |-> medication]
Medication(id, lowStockThreshold) ==
  Some([id |-> id, lowStockThreshold |-> lowStockThreshold])
MedicationIdOf(slot) ==
  IF slot.medication = Undefined THEN "" ELSE slot.medication[1].id

\* notificationService.createNotification(userId, type, title, message, data)
createNotification(type, slotNumber, remainingDoses) ==
  [type |-> type, slotNumber |-> slotNumber, remainingDoses |-> remainingDoses]

InventoryEntry(slotNumber, previousCount, newCount, changeType) ==
  [slotNumber |-> slotNumber, previousCount |-> previousCount,
   newCount |-> newCount, changeType |-> changeType]

\* publishToDevice(deviceId, messageType, payload): publishes when the MQTT
\* client is connected and returns whether it did.
publishToDevice(connected) == connected

\* DispenserService.dispenseMedication: creates the PENDING record and publishes
\* the dispense command; published is the result of publishToDevice.  Every
\* path returns an object with a success flag.
dispenseMedication(deviceId, slotNumber, published) ==
  /\ opCount < MaxOps
  /\ Len(dispensingRecords) < MaxRecords
  /\ opCount' = opCount + 1
  /\ IF \/ deviceId # Device
        \/ slotNumber \notin DOMAIN slots
     THEN /\ UNCHANGED dispensingRecords
          /\ response' = Response("dispenseMedication", "failure", 0)
     ELSE LET slot == slots[slotNumber]
          IN IF slot.medication = Undefined \/ slot.pillCount <= 0
             THEN /\ UNCHANGED dispensingRecords
                  /\ response' = Response("dispenseMedication", "failure", 0)
             ELSE /\ dispensingRecords' =
                       Append(dispensingRecords,
                              [slotNumber |-> slotNumber,
                               medicationId |-> MedicationIdOf(slot),
                               status |-> IF published THEN "PENDING" ELSE "FAILED"])
                  /\ response' =
                       Response("dispenseMedication",
                                IF published THEN "ok" ELSE "failure", 0)
  /\ UNCHANGED <<slots, reminderLogs, inventoryLog, notifications>>

\* handleInventoryUpdate: the device reports the pill count of a slot
handleInventoryUpdate(slotNumber, pillCount) ==
  /\ opCount < MaxOps
  /\ opCount' = opCount + 1
  /\ IF slotNumber \notin DOMAIN slots
     THEN UNCHANGED serviceVars
     ELSE LET slot == slots[slotNumber]
              previousCount == slot.pillCount
              changeType == IF pillCount > previousCount THEN "REFILL"
                            ELSE IF pillCount < previousCount THEN "CONSUMPTION"
                            ELSE "SYNC"
          IN /\ slots' = [slots EXCEPT ![slotNumber].pillCount = pillCount]
             /\ inventoryLog' =
                  Append(inventoryLog,
                         InventoryEntry(slotNumber, previousCount, pillCount, changeType))
             /\ IF /\ slot.medication # Undefined
                   /\ pillCount <= slot.medication[1].lowStockThreshold
                   /\ previousCount > slot.medication[1].lowStockThreshold
                THEN notifications' =
                       Append(notifications,
                              createNotification("LOW_INVENTORY", slotNumber, pillCount))
                ELSE UNCHANGED notifications
             /\ UNCHANGED <<dispensingRecords, reminderLogs>>

\* InventoryService.updatePillCount: an operator overwrites the pill count
updatePillCount(deviceId, slotNumber, newCount) ==
  /\ opCount < MaxOps
  /\ opCount' = opCount + 1
  /\ IF \/ newCount < 0
        \/ deviceId # Device
        \/ slotNumber \notin DOMAIN slots
     THEN UNCHANGED serviceVars
     ELSE LET slot == slots[slotNumber]
          IN /\ slots' = [slots EXCEPT ![slotNumber].pillCount = newCount]
             /\ IF newCount > slot.pillCount
                THEN inventoryLog' =
                       Append(inventoryLog,
                              InventoryEntry(slotNumber, slot.pillCount, newCount, "REFILL"))
                ELSE IF newCount < slot.pillCount
                THEN inventoryLog' =
                       Append(inventoryLog,
                              InventoryEntry(slotNumber, slot.pillCount, newCount,
                                             "ADJUSTMENT"))
                ELSE UNCHANGED inventoryLog
             /\ UNCHANGED <<dispensingRecords, reminderLogs, notifications>>

\* the reminder findFirst of handleDispensedConfirmation: a SENT reminder of the
\* medication scheduled within the last hour (0 when there is none)
ScheduledDose(medicationId) ==
  LET found == {i \in DOMAIN reminderLogs :
                  /\ reminderLogs[i].medicationId = medicationId
                  /\ reminderLogs[i].status = "SENT"
                  /\ reminderLogs[i].scheduledTime >= now - ReminderWindow}
  IN IF found = {} THEN 0 ELSE CHOOSE i \in found : \A j \in found : i <= j

\* handleDispensedConfirmation: the device confirms (or fails) a dispense
\* request. A slot without medication whose count is <= 1 makes the message
\* template throw after the count and the reminder were written; the handler's
\* catch swallows it and no notification is created.
handleDispensedConfirmation(requestId, slotNumber, medicationId, success) ==
  /\ opCount < MaxOps
  /\ opCount' = opCount + 1
  /\ IF requestId \notin DOMAIN dispensingRecords
     THEN UNCHANGED serviceVars
     ELSE /\ dispensingRecords' =
               [dispensingRecords EXCEPT
                  ![requestId].status = IF success THEN "COMPLETED" ELSE "FAILED"]
          /\ UNCHANGED inventoryLog
          /\ IF success
             THEN IF slotNumber \in DOMAIN slots
                  THEN LET slot == slots[slotNumber]
                           scheduledDose == ScheduledDose(medicationId)
                       IN /\ slots' = [slots EXCEPT
                                         ![slotNumber].pillCount = Max(0, slot.pillCount - 1)]
                          /\ reminderLogs' =
                               IF scheduledDose # 0
                               THEN [reminderLogs EXCEPT ![scheduledDose].status = "TAKEN"]
                               ELSE reminderLogs
                          /\ IF slot.pillCount <= 1 /\ slot.medication # Undefined
                             THEN notifications' =
                                    Append(notifications,
                                           createNotification("LOW_INVENTORY", slotNumber,
                                                              slot.pillCount - 1))
                             ELSE UNCHANGED notifications
                  ELSE UNCHANGED <<slots, reminderLogs, notifications>>
             ELSE /\ notifications' =
                       Append(notifications,
                              createNotification("DISPENSING_ERROR", slotNumber, 0))
                  /\ UNCHANGED <<slots, reminderLogs>>

PillCountInputs == 0..MaxPills
ThresholdInputs == {1, 2}
MedicationInputs == {Undefined} \cup {Medication("m1", t) : t \in ThresholdInputs}
ReminderInputs ==
  {<< >>, <<[medicationId |-> "m1", status |-> "SENT", scheduledTime |-> 0]>>}

\* the slots of the device are configured and hold some pills; a reminder may
\* have been sent
InitInventory ==
  /\ InitBase
  /\ slots \in [SlotNumbers -> {Slot(n, m) : n \in PillCountInputs, m \in MedicationInputs}]
  /\ dispensingRecords = << >>
  /\ reminderLogs \in ReminderInputs
  /\ inventoryLog = << >>
  /\ notifications = << >>

NextInventory ==
  \/ /\ \E d \in {Device, UnknownDevice}, s \in SlotNumbers \cup {UnknownSlot},
           connected \in BOOLEAN : dispenseMedication(d, s, publishToDevice(connected))
     /\ UNCHANGED <<compartments, medInventory, logs, nextLogId, pc, local,
                    missedEmits, alerts, deliveries, consumed, mqttVars, scheduleVars>>
  \/ /\ \E s \in SlotNumbers \cup {UnknownSlot}, n \in PillCountInputs :
          handleInventoryUpdate(s, n)
     /\ UNCHANGED <<compartments, medInventory, logs, nextLogId, pc, local,
                    missedEmits, alerts, deliveries, response, consumed, mqttVars,
                    scheduleVars>>
  \/ /\ \E d \in {Device, UnknownDevice}, s \in SlotNumbers \cup {UnknownSlot},
           n \in {-1} \cup PillCountInputs : updatePillCount(d, s, n)
     /\ UNCHANGED <<compartments, medInventory, logs, nextLogId, pc, local,
                    missedEmits, alerts, deliveries, response, consumed, mqttVars,
                    scheduleVars>>
  \/ /\ \E r \in 1..(MaxRecords + 1), s \in SlotNumbers \cup {UnknownSlot},
           success \in BOOLEAN : handleDispensedConfirmation(r, s, "m1", success)
     /\ UNCHANGED <<compartments, medInventory, logs, nextLogId, pc, local,
                    missedEmits, alerts, deliveries, response, consumed, mqttVars,
                    scheduleVars>>
  \/ /\ Tick
     /\ UNCHANGED <<alerts, deliveries, response, consumed, mqttVars, serviceVars>>

SpecInventory == InitInventory /\ [][NextInventory]_vars

-----------------------------------------------------------------------------
(* The alert controller.  Alert documents carry the fields the controller   *)
(* reads and writes.                                                        *)

\* The User collection: the patient u1 with one caregiver, one healthcare
\* provider, one emergency contact that is a user, and one admin; which contact
\* information each has.
Contacts ==
  [u1 |-> [phone |-> TRUE, email |-> TRUE, pushToken |-> TRUE],
   c1 |-> [phone |-> TRUE, email |-> TRUE, pushToken |-> FALSE],
   p1 |-> [phone |-> FALSE, email |-> TRUE, pushToken |-> FALSE],
   e1 |-> [phone |-> TRUE, email |-> FALSE, pushToken |-> TRUE],
   a1 |-> [phone |-> FALSE, email |-> TRUE, pushToken |-> TRUE]]
Caregivers == <<"c1">>            \* User.find({ _id: { $in: patient.caregivers } })
Providers == <<"p1">>             \* User.find({ _id: { $in: patient.healthcareProviders } })
EmergencyUsers == <<"e1">>        \* User.find({ email: { $in: emergencyContactEmails } })
Admins == <<"a1">>                \* User.find({ role: 'admin' })

\* a resolution that ignores the level
PatientOnlyRecipients(level) == {"patient"}

\* getRecipientsForEscalationLevel(level)
getRecipientsForEscalationLevel(level) ==
  CASE level = 0 -> {"patient"}
    [] level = 1 -> {"patient", "caregivers"}
    [] level = 2 -> {"patient", "caregivers", "providers"}
    [] level = 3 -> {"patient", "caregivers", "providers", "emergency"}
    [] level = 4 -> {"patient", "caregivers", "providers", "emergency", "admins"}
    [] OTHER -> {"patient", "caregivers"}

\* getRecipientUsers(recipientGroups, patient): the users, in the order pushed
getRecipientUsers(recipientGroups, patient) ==
  (IF "patient" \in recipientGroups THEN << patient >> ELSE << >>)
  \o (IF "caregivers" \in recipientGroups THEN Caregivers ELSE << >>)
  \o (IF "providers" \in recipientGroups THEN Providers ELSE << >>)
  \o (IF "emergency" \in recipientGroups THEN EmergencyUsers ELSE << >>)
  \o (IF "admins" \in recipientGroups THEN Admins ELSE << >>)

\* the contact information a method needs: recipient.phone / email / pushToken
HasContact(method, recipient) ==
  CASE method = "sms" -> Contacts[recipient].phone
    [] method = "email" -> Contacts[recipient].email
    [] method = "push" -> Contacts[recipient].pushToken
    [] OTHER -> TRUE

\* sendSMS / sendEmail / sendPushNotification: true when the service answered ok,
\* false when the fetch failed; failing is the set of (method, recipient) pairs
\* whose service call fails.  A method with no case in the switch leaves result
\* undefined.
Transport(method, recipient, failing) ==
  IF method \in {"sms", "email", "push"}
  THEN Some(<<method, recipient>> \notin failing)
  ELSE Undefined

\* (true).success: a boolean has no property success
SuccessOf(boolean) == Undefined

\* result && result.success, result being the boolean a transport returned
ResultSuccess(result) ==
  result # Undefined /\ result[1] /\ Truthy(SuccessOf(result[1]))

NotificationRecord(method, recipient, result) ==
  [method |-> method, recipient |-> recipient,
   status |-> IF ResultSuccess(result) THEN "sent" ELSE "failed"]

Delivery(method, recipient, result) ==
  [method |-> method, recipient |-> recipient, success |-> result[1]]

\* a loop that gives up at the first failed delivery
RECURSIVE NotifyUntilFailure(_, _, _)
NotifyUntilFailure(method, recipients, failing) ==
  IF recipients = << >> THEN << >>
  ELSE LET recipient == Head(recipients)
           result == Transport(method, recipient, failing)
       IN IF ~HasContact(method, recipient)
          THEN NotifyUntilFailure(method, Tail(recipients), failing)
          ELSE << [record |-> NotificationRecord(method, recipient, result),
                   delivery |-> << Delivery(method, recipient, result) >>] >>
               \o (IF result[1]
                   THEN NotifyUntilFailure(method, Tail(recipients), failing)
                   ELSE << >>)

\* The inner loop of sendAlertNotifications: for (const recipient of
\* recipientUsers), as the sequence of <<record, delivery>> of the attempts made.
RECURSIVE NotifyRecipients(_, _, _)
NotifyRecipients(method, recipients, failing) ==
  IF recipients = << >> THEN << >>
  ELSE LET recipient == Head(recipients)
           result == Transport(method, recipient, failing)
       IN (IF ~HasContact(method, recipient) THEN << >>
           ELSE << [record |-> NotificationRecord(method, recipient, result),
                    delivery |-> IF result = Undefined THEN << >>
                                 ELSE << Delivery(method, recipient, result) >>] >>)
          \o NotifyRecipients(method, Tail(recipients), failing)

\* The outer loop: for (const method of methods)
RECURSIVE NotifyMethods(_, _, _)
NotifyMethods(methods, recipients, failing) ==
  IF methods = << >> THEN << >>
  ELSE NotifyRecipients(Head(methods), recipients, failing)
       \o NotifyMethods(Tail(methods), recipients, failing)

\* sendAlertNotifications(alert, methods, recipients): the attempts, in order
sendAlertNotifications(alert, methods, recipients, failing) ==
  NotifyMethods(methods, getRecipientUsers(recipients, alert.patient), failing)

RecordsOf(attempts) == [i \in 1..Len(attempts) |-> attempts[i].record]
RECURSIVE DeliveriesOf(_)
DeliveriesOf(attempts) ==
  IF attempts = << >> THEN << >>
  ELSE Head(attempts).delivery \o DeliveriesOf(Tail(attempts))

HasAlert(id) == \E a \in alerts : a.id = id
AlertById(id) == CHOOSE a \in alerts : a.id = id
ReplaceAlert(doc) == {a \in alerts : a.id # doc.id} \cup {doc}

\* createAlert: POST /api/alerts.  "" is an absent alertType, patient,
\* medication or dispenser.
createAlert(alertType, patient, medication, dispenser, notificationMethods, recipientGroups, failing) ==
  /\ opCount < MaxOps
  /\ Cardinality(alerts) < MaxAlerts
  /\ opCount' = opCount + 1
  /\ IF alertType = "" \/ patient = "" \/ patient \notin DOMAIN Contacts
     THEN /\ response' = Response("createAlert", "failure", 400)
          /\ UNCHANGED <<alerts, deliveries>>
     ELSE LET alert == [id |-> Cardinality(alerts) + 1, alertType |-> alertType,
                        patient |-> patient, medication |-> medication,
                        dispenser |-> dispenser, status |-> "active",
                        notificationsSent |-> << >>, escalationLevel |-> 0,
                        escalationHistory |-> << >>, statusHistory |-> << >>,
                        acknowledgedBy |-> ""]
              attempts ==
                sendAlertNotifications(
                  alert,
                  IF notificationMethods # Undefined THEN notificationMethods[1]
                  ELSE <<"push", "email">>,
                  IF recipientGroups # Undefined THEN recipientGroups[1] ELSE {"patient"},
                  failing)
          IN /\ alerts' = alerts \cup
                  {[alert EXCEPT !.notificationsSent = RecordsOf(attempts)]}
             /\ deliveries' = deliveries \o DeliveriesOf(attempts)
             /\ response' = Response("createAlert", "ok", 201)
  /\ UNCHANGED <<compartments, medInventory, logs, nextLogId, pc, local, missedEmits,
                 scheduleVars, serviceVars, consumed, mqttVars>>

\* updateAlertStatus: PUT /api/alerts/:id.  status "" is an absent field.  The
\* acknowledgement is tested after alert.status was assigned.
updateAlertStatus(id, user, status) ==
  /\ opCount < MaxOps
  /\ opCount' = opCount + 1
  /\ IF ~HasAlert(id)
     THEN /\ response' = Response("updateAlertStatus", "failure", 404)
          /\ UNCHANGED alerts
     ELSE LET alert == AlertById(id)
              assigned == IF status # "" THEN status ELSE alert.status
          IN /\ alerts' = ReplaceAlert(
                  [alert EXCEPT
                     !.status = assigned,
                     !.acknowledgedBy =
                        IF status \in {"acknowledged", "resolved"} /\ assigned # status
                        THEN user ELSE @,
                     !.statusHistory = Append(@, assigned)])
             /\ response' = Response("updateAlertStatus", "ok", 200)
  /\ UNCHANGED <<compartments, medInventory, logs, nextLogId, pc, local, missedEmits,
                 scheduleVars, serviceVars, consumed, mqttVars, deliveries>>

\* a check that lets every alert through
AnyStatusEscalatable(alert) == TRUE

\* escalateAlert's check: only active alerts are escalated
Escalatable(alert) == alert.status = "active"

\* escalateAlert: PUT /api/alerts/:id/escalate, up to its alert.save():
\* findById, the status check and the assignments to the document in memory
Esc_Find(p, id, escalationLevel, notificationMethods, recipientGroups) ==
  /\ FreeSlot(p)
  /\ opCount < MaxOps
  /\ opCount' = opCount + 1
  /\ IF ~HasAlert(id)
     THEN /\ response' = Response("escalateAlert", "failure", 404)
          /\ UNCHANGED <<pc, local>>
     ELSE IF ~Escalatable(AlertById(id))
     THEN /\ response' = Response("escalateAlert", "failure", 400)
          /\ UNCHANGED <<pc, local>>
     ELSE /\ pc' = [pc EXCEPT ![p] = "esc_save"]
          /\ local' = [local EXCEPT ![p] =
               [alertId |-> id,
                level |-> IF Truthy(escalationLevel) THEN escalationLevel[1]
                          ELSE AlertById(id).escalationLevel + 1,
                methods |-> IF notificationMethods # Undefined
                            THEN notificationMethods[1] ELSE <<"push", "sms", "email">>,
                groups |-> recipientGroups]]
          /\ UNCHANGED response
  /\ UNCHANGED <<compartments, medInventory, logs, nextLogId, missedEmits, alerts,
                 scheduleVars, serviceVars, consumed, mqttVars, deliveries>>

\* escalateAlert from alert.save() on: the $set of escalationLevel and $push to
\* escalationHistory, then sendAlertNotifications and its $push to
\* notificationsSent
Esc_Save(p, failing) ==
  /\ pc[p] = "esc_save"
  /\ LET alert == AlertById(local[p].alertId)
         updatedAlert == [alert EXCEPT
                            !.escalationLevel = local[p].level,
                            !.escalationHistory = Append(@, local[p].level)]
         attempts ==
           sendAlertNotifications(
             updatedAlert, local[p].methods,
             IF local[p].groups # Undefined THEN local[p].groups[1]
             ELSE getRecipientsForEscalationLevel(updatedAlert.escalationLevel),
             failing)
     IN /\ alerts' = ReplaceAlert(
             [updatedAlert EXCEPT !.notificationsSent = @ \o RecordsOf(attempts)])
        /\ deliveries' = deliveries \o DeliveriesOf(attempts)
  /\ pc' = [pc EXCEPT ![p] = "idle"]
  /\ local' = [local EXCEPT ![p] = NoLocal]
  /\ response' = Response("escalateAlert", "ok", 200)
  /\ UNCHANGED <<compartments, medInventory, logs, nextLogId, opCount, missedEmits,
                 scheduleVars, serviceVars, consumed, mqttVars>>

AllPairs == {"push", "sms", "email"} \X DOMAIN Contacts
FailingInputs == {{}, {<<"email", "u1">>}, {<<"sms", "c1">>}, AllPairs}
MethodsInputs == {Undefined, Some(<<"sms", "email">>)}
GroupsInputs == {Undefined, Some({"patient", "admins"})}
LevelInputs == {Undefined} \cup {Some(n) : n \in 0..MaxLevel}

InitAlert == InitCommon

NextAlert ==
  \/ \E t \in {"", "missed_dose"}, u \in {"u1", "u9"}, m \in MethodsInputs,
        g \in GroupsInputs, f \in FailingInputs :
       createAlert(t, u, "m1", "", m, g, f)
  \/ \E id \in 1..MaxAlerts, s \in {"", "active", "acknowledged", "resolved"} :
       updateAlertStatus(id, "p1", s)
  \/ \E p \in Procs, id \in 1..MaxAlerts, l \in LevelInputs, m \in MethodsInputs,
        g \in GroupsInputs :
       Esc_Find(p, id, l, m, g)
  \/ \E p \in Procs, f \in FailingInputs : Esc_Save(p, f)

SpecAlert == InitAlert /\ [][NextAlert]_vars

-----------------------------------------------------------------------------
(* Properties of the dispenser specification *)

\* terminal statuses of a dispensing event
Terminal == {"taken", "missed", "skipped", "cancelled"}

\* C1: for every compartment, 0 <= currentQuantity <= capacity in every reachable
\* state, whatever dispensed-status updates, compartment updates and refills ran.
C1_QuantityWithinCapacity ==
  \A c \in DOMAIN compartments :
    /\ 0 <= compartments[c].currentQuantity
    /\ compartments[c].currentQuantity <= compartments[c].capacity

\* C2: a 'dispensed' update delivered for an event that was already dispensed
\* when the handler read it does not lower the compartment count it found (the
\* count is decremented at most once per event).
C2_DuplicateDispensedIsNoOp ==
  [][\A p \in Procs :
       (/\ pc[p] = "uls_saveDevice" /\ pc'[p] = "idle"
        /\ local[p].readStatus = "dispensed")
       => compartments'[local[p].doc.compartmentId].currentQuantity
            >= local[p].readQty]_vars

\* C3: once an event is in a terminal status its status never changes again, and a
\* status update or confirmation that found the event terminal changes no
\* inventory count.
C3_TerminalIsFinal ==
  [][/\ \A l \in logs : l.status \in Terminal => StatusOf(l.id)' = l.status
     /\ \A p \in Procs :
          (pc[p] # "idle" /\ pc'[p] # pc[p] /\ local[p].readStatus \in Terminal)
          => UNCHANGED <<compartments, medInventory>>]_vars

\* C4: when a scheduled->dispensed update and a scheduled->missed update race on
\* one event, the one that saves second (it read 'scheduled', the other has
\* already moved the event) is discarded: the event keeps the winner's status.
C4_RaceLoserDiscarded ==
  [][\A p \in Procs :
       (/\ pc[p] \in {"uls_save", "mc_save"} /\ pc'[p] # pc[p]
        /\ local[p].readStatus = "scheduled"
        /\ local[p].status \in {"dispensed", "missed"}
        /\ StatusOf(local[p].logId) \in {"dispensed", "missed"})
       => StatusOf(local[p].logId)' = StatusOf(local[p].logId)]_vars

\* C5: a 'dispensed' update for a scheduled event whose compartment holds fewer
\* tablets than the event's quantity leaves the event 'scheduled' and the
\* compartment counts unchanged, and raises an alert.
C5_InsufficientStockAborts ==
  [][\A p \in Procs :
       (/\ pc[p] = "uls_save" /\ pc'[p] # pc[p]
        /\ local[p].status = "dispensed"
        /\ StatusOf(local[p].logId) = "scheduled"
        /\ local[p].doc.compartmentId \in DOMAIN compartments
        /\ compartments[local[p].doc.compartmentId].currentQuantity
             < TabletsDispensed(ULS_Mutated(local[p].doc, local[p].status, local[p].actual)))
       => /\ StatusOf(local[p].logId)' = "scheduled"
          /\ compartments' = compartments
          /\ alerts' # alerts]_vars

\* C11: when a handler that moves an event from 'dispensed' to 'skipped' finishes,
\* it has added back to the event's compartment the tablets the event's dispense
\* took out of it (dispense then skip is a net zero change of the count).
C11_SkipRestoresConsumed ==
  [][\A p \in Procs :
       (/\ pc[p] \in {"uls_save", "mc_save", "mc_restock"} /\ pc'[p] = "idle"
        /\ local[p].status = "skipped" /\ local[p].readStatus = "dispensed"
        /\ local[p].logId \in DOMAIN consumed
        /\ consumed[local[p].logId] >= 0
        /\ local[p].doc.compartmentId \in DOMAIN compartments)
       => compartments'[local[p].doc.compartmentId].currentQuantity
            = compartments[local[p].doc.compartmentId].currentQuantity
                + consumed[local[p].logId]]_vars

-----------------------------------------------------------------------------
(* Properties of the schedule specification *)

\* C6: when updateScheduleStatus pauses a schedule (active = false) or
\* deleteSchedule removes it, no dispensing event of that schedule with a future
\* scheduledTime is still 'scheduled' afterwards.
C6_PauseOrDeleteCancelsFuture ==
  [][\A id \in 1..MaxSchedules :
       (updateScheduleStatus(id, FALSE) \/ deleteSchedule(id))
       => \A l \in logs' :
            ~(l.schedule = id /\ l.scheduledTime > now /\ l.status = "scheduled")]_vars

\* C7: no two dispensing events share the same (schedule, scheduledTime).
C7_NoDuplicateEvents ==
  \A l1 \in logs, l2 \in logs :
    (l1.schedule # NoSchedule /\ l1.schedule = l2.schedule
       /\ l1.scheduledTime = l2.scheduledTime)
    => l1.id = l2.id

\* C8: a step that creates events creates none for a (schedule, scheduledTime)
\* whose existing event has already left 'scheduled'.
C8_NoRegenerationOfResolved ==
  [][\A n \in logs' :
       n.id >= nextLogId
       => ~\E l \in logs : /\ l.schedule = n.schedule
                           /\ l.scheduledTime = n.scheduledTime
                           /\ l.status # "scheduled"]_vars

\* The instants C9 names: a day whose weekday is in daysOfWeek and which lies
\* within [startDate, endDate] (endDate defaulting to now + 30 days), at a time of
\* scheduleTimes, strictly after now.
ExpectedInstants(schedule, t) ==
  LET firstDay == Max(DayOf(t), DayOf(schedule.startDate))
      lastDay == DayOf(HorizonEnd(schedule, t))
  IN {i \in {d * MinutesPerDay + MinutesOfDay(schedule.scheduleTimes[k]) :
               d \in firstDay..lastDay, k \in 1..Len(schedule.scheduleTimes)} :
        /\ DayOfWeek(DayOf(i)) \in schedule.daysOfWeek
        /\ i > t}

NoRepeatedTime(schedule) ==
  \A j, k \in 1..Len(schedule.scheduleTimes) :
    schedule.scheduleTimes[j] = schedule.scheduleTimes[k] => j = k

\* C9: for a new active schedule with a dispenser (and distinct times),
\* generateDispensingLogs creates exactly one event for each expected instant and
\* no other event.
C9_ExpansionExact ==
  [][\A s \in schedules' :
       (~HasSchedule(s.id) /\ s.dispenser # "" /\ NoRepeatedTime(s))
       => LET created == {l \in logs' : l.id >= nextLogId}
          IN /\ \A i \in ExpectedInstants(s, now) :
                  Cardinality({l \in created : l.scheduledTime = i}) = 1
             /\ \A l \in created : l.scheduledTime \in ExpectedInstants(s, now)]_vars

-----------------------------------------------------------------------------
(* Properties of the device services *)

LowInventoryCount(ns) ==
  Cardinality({i \in DOMAIN ns : ns[i].type = "LOW_INVENTORY"})

\* C10: a successful dispense confirmation or an inventory sync on a slot with a
\* medication creates exactly one low-inventory notification when the slot's pill
\* count moves from above the medication's lowStockThreshold to at or below it,
\* and none otherwise.
C10_LowInventoryOnCrossing ==
  [][\A s \in DOMAIN slots :
       (/\ slots[s].medication # Undefined
        /\ \/ \E r \in DOMAIN dispensingRecords :
                handleDispensedConfirmation(r, s, MedicationIdOf(slots[s]), TRUE)
           \/ \E n \in PillCountInputs : handleInventoryUpdate(s, n))
       => LowInventoryCount(notifications') - LowInventoryCount(notifications)
            = IF /\ slots[s].pillCount > slots[s].medication[1].lowStockThreshold
                 /\ slots'[s].pillCount <= slots[s].medication[1].lowStockThreshold
              THEN 1 ELSE 0]_vars

\* C12: a dispensed confirmation with success = false for a pending request leaves
\* the request in its pre-confirmation status and the slot's pill count unchanged,
\* and raises a device-fault (DISPENSING_ERROR) notification.
C12_FailedConfirmationKeepsState ==
  [][\A r \in DOMAIN dispensingRecords, s \in SlotNumbers \cup {UnknownSlot} :
       (/\ dispensingRecords[r].status = "PENDING"
        /\ handleDispensedConfirmation(r, s, "m1", FALSE))
       => /\ dispensingRecords'[r].status = "PENDING"
          /\ slots' = slots
          /\ Len(notifications') = Len(notifications) + 1
          /\ notifications'[Len(notifications')].type = "DISPENSING_ERROR"]_vars

-----------------------------------------------------------------------------
(* Properties of the alert controller *)

\* C13: there is at most one active Alert per (patient, alertType, medication,
\* dispenser) fingerprint: raising an alert whose fingerprint matches an active
\* alert creates no second one.
C13_OneActiveAlertPerFingerprint ==
  \A a \in alerts, b \in alerts :
    (/\ a.status = "active" /\ b.status = "active"
     /\ a.patient = b.patient /\ a.alertType = b.alertType
     /\ a.medication = b.medication /\ a.dispenser = b.dispenser)
    => a.id = b.id

\* C14: while an alert is active its escalationLevel never decreases, whatever
\* escalateAlert calls run, with or without an explicit escalationLevel.
C14_EscalationLevelMonotone ==
  [][\A a \in alerts :
       (a.status = "active" /\ HasAlert(a.id)')
       => AlertById(a.id)'.escalationLevel >= a.escalationLevel]_vars

\* the recipient tiers, lowest first
TierGroups == <<"patient", "caregivers", "providers", "emergency", "admins">>
ClaimedGroups(level) == {TierGroups[i] : i \in 1..(level + 1)}
Range(seq) == {seq[i] : i \in DOMAIN seq}
GroupMembers(group, patient) ==
  CASE group = "patient" -> {patient}
    [] group = "caregivers" -> Range(Caregivers)
    [] group = "providers" -> Range(Providers)
    [] group = "emergency" -> Range(EmergencyUsers)
    [] group = "admins" -> Range(Admins)

\* C15: the groups resolved for level 0 are {patient}, for 1 patient and
\* caregivers, for 2 those and providers, for 3 those and emergency contacts, for 4
\* those and admins; and an escalateAlert call without recipientGroups that takes
\* the alert to a level in 0..4 calls the transports for exactly the members of
\* that level's groups that have the contact information of one of the methods.
C15_RecipientsByLevel ==
  /\ \A l \in 0..4 : getRecipientsForEscalationLevel(l) = ClaimedGroups(l)
  /\ [][\A p \in Procs, f \in FailingInputs :
          (/\ Esc_Save(p, f)
           /\ local[p].groups = Undefined
           /\ local[p].level \in 0..4)
          => LET alert == CHOOSE a \in alerts' : a.id = local[p].alertId
                 new == SubSeq(deliveries', Len(deliveries) + 1, Len(deliveries'))
                 members == UNION {GroupMembers(g, alert.patient) :
                                     g \in ClaimedGroups(alert.escalationLevel)}
             IN /\ alert.escalationLevel = local[p].level
                /\ {new[i].recipient : i \in DOMAIN new}
                     = {u \in members :
                          \E m \in Range(local[p].methods) : HasContact(m, u)}]_vars

\* an escalation without recipientGroups took an alert to level 3 and the
\* emergency contact was called
C15_Witness ==
  /\ response = Response("escalateAlert", "ok", 200)
  /\ \E a \in alerts : a.escalationLevel = 3
  /\ \E i \in DOMAIN deliveries : deliveries[i].recipient = "e1"

-----------------------------------------------------------------------------
(* The MQTT controller of src/mqtt/mqttClient.js.  A state of the controller *)
(* is the pair of deviceState and the messages published so far.            *)

LowInventoryThreshold == 10
LowBatteryThreshold == 20

CompartmentNames == {"compartment1", "compartment2"}

\* a message that JSON.parse accepts, as the parsed payload; an absent field is
\* Undefined
Payload(type, compartment, quantity, batteryLevel) ==
  [parses |-> TRUE, type |-> type, compartment |-> compartment,
   quantity |-> quantity, batteryLevel |-> batteryLevel]

\* a message that JSON.parse rejects
NotJson ==
  [parses |-> FALSE, type |-> Undefined, compartment |-> "",
   quantity |-> Undefined, batteryLevel |-> Undefined]

\* `x || 0` of a number that may be absent
OrZero(opt) == IF Truthy(opt) THEN opt[1] ELSE 0

\* `x < n` and `x > n` of a number that may be absent: undefined compares false
LessThan(opt, n) == opt # Undefined /\ opt[1] < n
GreaterThan(opt, n) == opt # Undefined /\ opt[1] > n

\* publishMessage(topic, payload): publishes when the client is connected
publishMessage(st, topic, payload) ==
  IF clientConnected
  THEN [st EXCEPT !.published = Append(@, [topic |-> topic, payload |-> payload])]
  ELSE st

\* checkInventoryLevels(compartment)
checkInventoryLevels(st, compartment) ==
  LET inventoryLevel ==
        IF compartment \in CompartmentNames
        THEN OrZero(st.deviceState.inventoryLevels[compartment].quantity)
        ELSE 0
  IN IF inventoryLevel < LowInventoryThreshold
     THEN publishMessage(st, "dispenser/alerts",
                         [type |-> "low-inventory", compartment |-> compartment,
                          currentQuantity |-> inventoryLevel])
     ELSE st

\* a dispense that takes a tablet from a known compartment without looking at
\* its quantity
dispenseUnchecked(st, payload) ==
  LET compartment == payload.compartment
  IN IF compartment \in CompartmentNames
     THEN LET dispensingEvent == [timestamp |-> now, compartment |-> compartment]
              taken == [st EXCEPT
                          !.deviceState.inventoryLevels[compartment].quantity =
                             Some(OrZero(@) - 1),
                          !.deviceState.dispensingLog = Append(@, dispensingEvent),
                          !.deviceState.lastDispensed = Some(dispensingEvent)]
          IN checkInventoryLevels(
               publishMessage(taken, "dispenser/dispensed",
                              [status |-> "success", compartment |-> compartment]),
               compartment)
     ELSE publishMessage(st, "dispenser/dispensed", [status |-> "error"])

\* dispense(payload)
dispense(st, payload) ==
  LET compartment == payload.compartment
  IN IF /\ compartment \in CompartmentNames
        /\ GreaterThan(st.deviceState.inventoryLevels[compartment].quantity, 0)
     THEN LET dispensingEvent == [timestamp |-> now, compartment |-> compartment]
              taken == [st EXCEPT
                          !.deviceState.inventoryLevels[compartment].quantity =
                             Some(@[1] - 1),
                          !.deviceState.dispensingLog = Append(@, dispensingEvent),
                          !.deviceState.lastDispensed = Some(dispensingEvent)]
          IN checkInventoryLevels(
               publishMessage(taken, "dispenser/dispensed",
                              [status |-> "success", compartment |-> compartment]),
               compartment)
     ELSE publishMessage(st, "dispenser/dispensed", [status |-> "error"])

\* scheduleDispensing(payload)
scheduleDispensing(st, payload) ==
  publishMessage(st, "dispenser/schedule-confirmation", [status |-> "scheduled"])

\* handleCommand(payload)
handleCommand(st, payload) ==
  IF payload.type = Undefined THEN st
  ELSE CASE payload.type[1] = "dispense" -> dispense(st, payload)
         [] payload.type[1] = "schedule" -> scheduleDispensing(st, payload)
         [] OTHER -> st

\* updateInventory(payload)
updateInventory(st, payload) ==
  IF payload.compartment \in CompartmentNames
  THEN checkInventoryLevels(
         [st EXCEPT !.deviceState.inventoryLevels[payload.compartment].quantity =
                       payload.quantity],
         payload.compartment)
  ELSE st

\* updateDeviceStatus(payload)
updateDeviceStatus(st, payload) ==
  LET set == [st EXCEPT !.deviceState.batteryLevel = payload.batteryLevel]
  IN IF LessThan(payload.batteryLevel, LowBatteryThreshold)
     THEN publishMessage(set, "dispenser/alerts",
                         [type |-> "low-battery",
                          currentBattery |-> payload.batteryLevel[1]])
     ELSE set

\* this.client.on('message', (topic, message) => ...)
onMessage(topic, message) ==
  /\ opCount < MaxOps
  /\ opCount' = opCount + 1
  /\ LET st == [deviceState |-> deviceState, published |-> publishedMessages]
         after == IF ~message.parses THEN st
                  ELSE CASE topic = "dispenser/command" -> handleCommand(st, message)
                         [] topic = "dispenser/inventory" -> updateInventory(st, message)
                         [] topic = "dispenser/device-status" ->
                              updateDeviceStatus(st, message)
                         [] OTHER -> st
     IN /\ deviceState' = after.deviceState
        /\ publishedMessages' = after.published
  /\ UNCHANGED <<compartments, medInventory, logs, nextLogId, pc, local,
                 missedEmits, alerts, deliveries, response, consumed, clientConnected,
                 scheduleVars, serviceVars>>

\* the client's 'connect' event
onConnect ==
  /\ ~clientConnected
  /\ clientConnected' = TRUE
  /\ UNCHANGED <<dispenserVars, alerts, deliveries, response, consumed,
                 deviceState, publishedMessages, scheduleVars, serviceVars>>

\* the client's 'close' event
onClose ==
  /\ clientConnected
  /\ clientConnected' = FALSE
  /\ UNCHANGED <<dispenserVars, alerts, deliveries, response, consumed,
                 deviceState, publishedMessages, scheduleVars, serviceVars>>

Topics == {"dispenser/command", "dispenser/inventory", "dispenser/device-status", "dispenser/other"}
TypeInputs == {Undefined, Some("dispense"), Some("schedule"), Some("reboot")}
CompartmentInputs == CompartmentNames \cup {"compartment9"}
QuantityOptions == {Undefined, Some(0), Some(1), Some(LowInventoryThreshold)}
BatteryOptions == {Undefined, Some(LowBatteryThreshold - 1), Some(LowBatteryThreshold)}

\* payloads of the three kinds of message
CommandPayloads == {Payload(t, c, Undefined, Undefined) : t \in TypeInputs, c \in CompartmentInputs}
InventoryPayloads == {Payload(Undefined, c, q, Undefined) : c \in CompartmentInputs, q \in QuantityOptions}
StatusPayloads == {Payload(Undefined, "", Undefined, b) : b \in BatteryOptions}
Messages == CommandPayloads \cup InventoryPayloads \cup StatusPayloads \cup {NotJson}

InitMqtt == InitCommon

NextMqtt ==
  \/ \E topic \in Topics, message \in Messages : onMessage(topic, message)
  \/ onConnect
  \/ onClose

SpecMqtt == InitMqtt /\ [][NextMqtt]_vars

\* C20: an inventory message without quantity, a device-status message without
\* batteryLevel and a command without type leave deviceState unchanged and
\* publish nothing.
C20_MalformedMessageRejected ==
  [][/\ \A m \in InventoryPayloads :
          (m.quantity = Undefined /\ onMessage("dispenser/inventory", m))
          => (deviceState' = deviceState /\ publishedMessages' = publishedMessages)
     /\ \A m \in StatusPayloads :
          (m.batteryLevel = Undefined /\ onMessage("dispenser/device-status", m))
          => (deviceState' = deviceState /\ publishedMessages' = publishedMessages)
     /\ \A m \in CommandPayloads :
          (m.type = Undefined /\ onMessage("dispenser/command", m))
          => (deviceState' = deviceState /\ publishedMessages' = publishedMessages)]_vars

\* the transport calls made by the step
NewDeliveries == SubSeq(deliveries', Len(deliveries) + 1, Len(deliveries'))

\* the (method, recipient) pairs with contact information
PairsWithContact(methods, recipients) ==
  {<<m, r>> \in Range(methods) \X Range(recipients) : HasContact(m, r)}

\* methods and groups a createAlert request resolves to
CreateMethods(m) == IF m # Undefined THEN m[1] ELSE <<"push", "email">>
CreateGroups(g) == IF g # Undefined THEN g[1] ELSE {"patient"}

\* C17: a call of sendAlertNotifications (from createAlert or escalateAlert)
\* calls the transport of every (method, recipient) pair that has contact
\* information, whichever of the deliveries fail.
C17_FailureDoesNotBlockOthers ==
  [][/\ \A p \in Procs, f \in FailingInputs :
          Esc_Save(p, f)
          => LET alert == CHOOSE a \in alerts' : a.id = local[p].alertId
                 groups == IF local[p].groups # Undefined THEN local[p].groups[1]
                           ELSE getRecipientsForEscalationLevel(alert.escalationLevel)
             IN {<<NewDeliveries[i].method, NewDeliveries[i].recipient>> :
                   i \in DOMAIN NewDeliveries}
                  = PairsWithContact(local[p].methods,
                                     getRecipientUsers(groups, alert.patient))
     /\ \A m \in MethodsInputs, g \in GroupsInputs, f \in FailingInputs :
          createAlert("missed_dose", "u1", "m1", "", m, g, f)
          => {<<NewDeliveries[i].method, NewDeliveries[i].recipient>> :
                i \in DOMAIN NewDeliveries}
               = PairsWithContact(CreateMethods(m),
                                  getRecipientUsers(CreateGroups(g), "u1"))]_vars

\* one call of sendAlertNotifications in which a delivery failed and a later
\* one was made and succeeded
C17_Witness ==
  /\ opCount = 1
  /\ \E i, j \in DOMAIN deliveries :
       i < j /\ ~deliveries[i].success /\ deliveries[j].success

\* C18: every transport call of a step appends exactly one record to the alert's
\* notificationsSent, in order, with status 'sent' when the transport reported
\* success and 'failed' when it reported failure; the records the alert already
\* had are unchanged.
C18_OneRecordPerAttempt ==
  [][/\ \A a \in alerts' :
          LET old == IF HasAlert(a.id) THEN AlertById(a.id).notificationsSent ELSE << >>
              new == SubSeq(a.notificationsSent, Len(old) + 1, Len(a.notificationsSent))
          IN /\ Len(a.notificationsSent) >= Len(old)
             /\ SubSeq(a.notificationsSent, 1, Len(old)) = old
             /\ new # << >>
                => /\ Len(new) = Len(NewDeliveries)
                   /\ \A i \in DOMAIN new :
                        /\ new[i].method = NewDeliveries[i].method
                        /\ new[i].recipient = NewDeliveries[i].recipient
                        /\ new[i].status =
                             IF NewDeliveries[i].success THEN "sent" ELSE "failed"
     /\ NewDeliveries # << >>
        => \E a \in alerts' :
             Len(a.notificationsSent)
               > (IF HasAlert(a.id) THEN Len(AlertById(a.id).notificationsSent) ELSE 0)]_vars

\* C19: a dispense command for a loaded slot sent while the device's channel is
\* not connected returns a failure result and leaves the dispensing record it
\* created in the pending state.
C19_UnreachableKeepsPending ==
  [][\A s \in SlotNumbers :
       (/\ slots[s].medication # Undefined
        /\ slots[s].pillCount > 0
        /\ dispenseMedication(Device, s, publishToDevice(FALSE)))
       => /\ response'.outcome = "failure"
          /\ Len(dispensingRecords') = Len(dispensingRecords) + 1
          /\ dispensingRecords'[Len(dispensingRecords')].status = "PENDING"]_vars

\* C21: an inventory update for an unknown slot, and a dispensed confirmation
\* that names an unknown dispensing request or an unknown slot, change no
\* dispensing record, no slot, no reminder, no audit entry and no notification.
C21_UnknownTelemetryDropped ==
  [][/\ \A n \in PillCountInputs :
          handleInventoryUpdate(UnknownSlot, n) => UNCHANGED serviceVars
     /\ \A r \in 1..(MaxRecords + 1), s \in SlotNumbers \cup {UnknownSlot},
           success \in BOOLEAN :
          (/\ r \notin DOMAIN dispensingRecords \/ s \notin DOMAIN slots
           /\ handleDispensedConfirmation(r, s, "m1", success))
          => UNCHANGED serviceVars]_vars

\* C22: a dispensing log that a 'dispensed' or 'taken' confirmation has reached
\* never becomes 'missed' afterwards (the half of missed-dose detection that
\* protects confirmed events).
C22_ConfirmedNeverMissed ==
  [][\A l \in logs :
       (l.status \in {"dispensed", "taken"} /\ HasLog(l.id)')
       => LogById(l.id)'.status # "missed"]_vars

\* C23: the missed-dose notification is emitted at most once for a dispensing
\* log, however many 'missed' confirmations are delivered for it.
C23_MissedNotifiedOnce ==
  \A id \in 1..MaxLogs :
    Cardinality({i \in DOMAIN missedEmits : missedEmits[i] = id}) <= 1

-----------------------------------------------------------------------------
(* Schedules and the compartment they are bound to: the schedule handlers   *)
(* together with updateDispenserCompartment.                                *)

InitBinding == InitCommon

NextBinding ==
  \/ /\ \E dc \in {<<Device, 1>>, <<"", 0>>}, st \in ScheduleTimesInputs,
           dw \in DaysInputs :
          createSchedule("m1", dc[1], dc[2], st, dw, Undefined, Undefined, Undefined)
     /\ UNCHANGED <<alerts, deliveries, response, consumed, mqttVars, serviceVars>>
  \/ /\ \E id \in 1..MaxSchedules, c \in 0..(NumCompartments + 1),
           st \in {Undefined, Some(<<T0800, T2000>>)} :
          updateSchedule(id, "", c, st, Undefined, Undefined, Undefined, Undefined)
     /\ UNCHANGED <<alerts, deliveries, response, consumed, mqttVars, serviceVars>>
  \/ /\ \E id \in 1..MaxSchedules : deleteSchedule(id)
     /\ UNCHANGED <<alerts, deliveries, response, consumed, mqttVars, serviceVars>>
  \/ /\ \E c \in CompartmentIds, m \in {""} \cup Meds, q \in {Undefined, Some(2)} :
          updateDispenserCompartment(c, m, q)
     /\ UNCHANGED <<alerts, deliveries, response, consumed, mqttVars, scheduleVars,
                    serviceVars>>
  \/ /\ Tick
     /\ UNCHANGED <<alerts, deliveries, response, consumed, mqttVars, serviceVars>>

SpecBinding == InitBinding /\ [][NextBinding]_vars

\* C24: the compartment a schedule is bound to holds the schedule's medication.
C24_BoundCompartmentMatches ==
  \A s \in schedules :
    (s.dispenser # "" /\ s.compartmentId \in DOMAIN compartments)
    => compartments[s.compartmentId].medicationId = s.medication

\* C25: count mutations of one compartment take effect one after the other: the
\* dispenser.save() of a 'dispensed' update lowers the count the compartment
\* holds at that moment by the tablets dispensed (not below 0), so no refill or
\* decrement that was written since the handler read the count is lost.  The
\* case is a handler that read a count covering its tablets.
C25_CountMutationsSerialized ==
  [][\A p \in Procs :
       (/\ ULS_SaveDevice(p)
        /\ local[p].readQty >= TabletsDispensed(local[p].doc))
       => compartments'[local[p].doc.compartmentId].currentQuantity
            = QuantityAfterDispense(
                compartments[local[p].doc.compartmentId].currentQuantity,
                TabletsDispensed(local[p].doc))]_vars

\* C26: an inventory sync or a pill-count overwrite of a known slot sets the
\* slot's count to the reported value and appends exactly one audit entry with
\* the count before the call and the count after it, also when they are equal.
C26_OverwriteAudited ==
  [][\A s \in DOMAIN slots, n \in PillCountInputs :
       (/\ handleInventoryUpdate(s, n) \/ updatePillCount(Device, s, n)
        /\ response' = response)
       => /\ slots'[s].pillCount = n
          /\ Len(inventoryLog') = Len(inventoryLog) + 1
          /\ inventoryLog'[Len(inventoryLog')].slotNumber = s
          /\ inventoryLog'[Len(inventoryLog')].previousCount = slots[s].pillCount
          /\ inventoryLog'[Len(inventoryLog')].newCount = n]_vars

\* C27: when updateScheduleStatus sets a paused schedule with a dispenser,
\* times and days back to active, and generateDispensingLogs has instants to
\* generate for it, the schedule has future 'scheduled' dispensing events
\* afterwards.
C27_ResumeRegenerates ==
  [][\A id \in 1..MaxSchedules :
       (/\ HasSchedule(id)
        /\ ~ScheduleById(id).active
        /\ ScheduleById(id).dispenser # ""
        /\ ScheduleById(id).scheduleTimes # << >>
        /\ ScheduleById(id).daysOfWeek # {}
        /\ GeneratedLogs([ScheduleById(id) EXCEPT !.active = TRUE], now, nextLogId) # {}
        /\ updateScheduleStatus(id, TRUE))
       => \E l \in logs' :
            l.schedule = id /\ l.status = "scheduled" /\ l.scheduledTime > now]_vars

\* C28: when updateAlertStatus moves an alert to 'acknowledged' or 'resolved' from
\* another status, the alert's acknowledgedBy is the acting user afterwards.
C28_AcknowledgementRecorded ==
  [][\A a \in alerts, s \in {"acknowledged", "resolved"} :
       (a.status # s /\ updateAlertStatus(a.id, "p1", s))
       => (CHOOSE b \in alerts' : b.id = a.id).acknowledgedBy = "p1"]_vars

\* C29: an escalation that raises an alert from level L to L + 1 and names no
\* recipient groups notifies every group of level L: the groups of a level are a
\* subset of those of the next level, also above level 4.
C29_EscalationKeepsTiers ==
  [][\A p \in Procs, f \in FailingInputs :
       (/\ Esc_Save(p, f)
        /\ local[p].groups = Undefined
        /\ local[p].level = AlertById(local[p].alertId).escalationLevel + 1)
       => getRecipientsForEscalationLevel(AlertById(local[p].alertId).escalationLevel)
            \subseteq getRecipientsForEscalationLevel(local[p].level)]_vars

\* whether a dispense command for the compartment finds tablets to dispense
HoldsTablets(compartment) ==
  /\ compartment \in CompartmentNames
  /\ GreaterThan(deviceState.inventoryLevels[compartment].quantity, 0)

\* C30: a dispense command for a compartment that is unknown or holds no tablet
\* leaves deviceState unchanged and (the client being connected) publishes one
\* error message; a dispense command for a compartment that holds tablets lowers
\* that compartment's quantity by exactly 1, not below 0, and appends one
\* dispensingLog entry, which becomes lastDispensed; and the dispensingLog grows
\* in no other step.
C30_DispenseGuarded ==
  [][/\ \A m \in CommandPayloads :
          (m.type = Some("dispense") /\ onMessage("dispenser/command", m))
          => IF HoldsTablets(m.compartment)
             THEN LET before == deviceState.inventoryLevels[m.compartment].quantity[1]
                      log == deviceState'.dispensingLog
                  IN /\ deviceState'.inventoryLevels[m.compartment].quantity
                          = Some(before - 1)
                     /\ before - 1 >= 0
                     /\ \A c \in CompartmentNames \ {m.compartment} :
                          deviceState'.inventoryLevels[c] = deviceState.inventoryLevels[c]
                     /\ deviceState'.batteryLevel = deviceState.batteryLevel
                     /\ Len(log) = Len(deviceState.dispensingLog) + 1
                     /\ SubSeq(log, 1, Len(log) - 1) = deviceState.dispensingLog
                     /\ log[Len(log)].compartment = m.compartment
                     /\ deviceState'.lastDispensed = Some(log[Len(log)])
             ELSE /\ deviceState' = deviceState
                  /\ clientConnected
                     => publishedMessages'
                          = Append(publishedMessages,
                                   [topic |-> "dispenser/dispensed",
                                    payload |-> [status |-> "error"]])
     /\ deviceState'.dispensingLog # deviceState.dispensingLog
        => \E m \in CommandPayloads :
             /\ m.type = Some("dispense")
             /\ HoldsTablets(m.compartment)
             /\ onMessage("dispenser/command", m)]_vars

\* a dispense command was served from a compartment and another was answered
\* with the error message
C30_Witness ==
  /\ Len(deviceState.dispensingLog) = 1
  /\ deviceState.lastDispensed = Some(deviceState.dispensingLog[1])
  /\ \E c \in CompartmentNames : deviceState.inventoryLevels[c].quantity = Some(0)
  /\ \E i \in DOMAIN publishedMessages :
       /\ publishedMessages[i].topic = "dispenser/dispensed"
       /\ publishedMessages[i].payload.status = "error"

====
